---- MODULE Spec2Model ----
(***************************************************************************)
(* A model of the IPC simulator: the three channels of ipc_engine.py, the  *)
(* Diagnostics wait-for graph of diagnostics.py, the worker loop of        *)
(* worker.py / main.py and the two coordinators (run_headless and          *)
(* Backend).                                                               *)
(*                                                                         *)
(* Library behaviour the code rests on, modelled by what it does:          *)
(*  - multiprocessing.Queue.put appends to a buffer of the calling process *)
(*    and returns; a feeder thread of that process moves the buffer to the *)
(*    queue's pipe later.  get_nowait and empty look at the pipe only.     *)
(*  - multiprocessing.Pipe is a FIFO byte stream: send appends a whole     *)
(*    message, poll tells whether data is there, recv blocks until data is *)
(*    there and takes the oldest message.                                  *)
(*  - every object handed to a multiprocessing.Process as an argument that *)
(*    is not a multiprocessing primitive (Diagnostics is a plain object)   *)
(*    is a private copy in the child.                                      *)
(*  - time.sleep and timeouts give no upper bound on what other processes  *)
(*    do meanwhile: a sleep is a step like any other.                      *)
(***************************************************************************)
EXTENDS Integers, Sequences, FiniteSets, TLC

\* ---------------------------------------------------------------- bounds
\* calls the test clients make, calls made on the Diagnostics checked alone,
\* messages the workers of a run send
MaxOps == 4
MaxDiagOps == 4
MaxSends == 1
\* how far time.time() runs, and calls made on the Diagnostics' idle report
MaxTime == 6
MaxIdleOps == 4
\* transport failures injected into a run
MaxFaults == 2
\* the largest run a destination is picked in, and how many are picked
MaxNumProcs == 4
MaxPickOps == 4

\* ---------------------------------------------------------------- constants
\* SharedMemoryChannel.buf: mp.Array('c', b'\x00' * 256)
BufSize == 256
\* get_bottlenecks: idle for more than 2.0
IdleAfter == 2

\* the worker ids of a run of four, the least run that has the demo's P2 and P3
Procs == {0, 1, 2, 3}
NumProcs == Cardinality(Procs)
\* the processes that act as test clients of a channel
Callers == {0, 1}
Coord == NumProcs
Owners == Procs \cup {Coord}
Free == -1

Kinds == {"Pipe", "MsgQueue", "SharedMem"}
\* the outcomes of random.randint(0, num_procs - 1) a run draws from
Picks == {0, 3}

\* Backend._alert: "", "DEADLOCK: ..." or "Idle: ..."
NoAlert == [tag |-> "", pids |-> <<>>]

\* ---------------------------------------------------------------- values
\* Message(src, dst, data, timestamp); None is the absent message.
Message(s, d, x, t) == [src |-> s, dst |-> d, data |-> x, timestamp |-> t]
None == [src |-> -1, dst |-> -1, data |-> <<>>, timestamp |-> 0]
\* the result of a recv call that left by an exception (UnicodeDecodeError)
Raised == [src |-> -2, dst |-> -2, data |-> <<>>, timestamp |-> 0]
\* the result of a call that left by BrokenPipeError or EOFError
Closed == [src |-> -3, dst |-> -3, data |-> <<>>, timestamp |-> 0]

\* str.encode(): UTF-8.  Text is a sequence of code points below 256.
Utf8(c) == IF c < 128 THEN <<c>> ELSE IF c < 192 THEN <<194, c>> ELSE <<195, c - 64>>

\* the encoding of a text is the encodings of its characters put together;
\* the text is split in halves so that a long text nests only a few levels
RECURSIVE encode(_)
encode(s) ==
    IF s = <<>> THEN <<>>
    ELSE IF Len(s) = 1 THEN Utf8(s[1])
    ELSE encode(SubSeq(s, 1, Len(s) \div 2)) \o encode(SubSeq(s, Len(s) \div 2 + 1, Len(s)))

IsLead(c) == c \in {194, 195}
IsCont(c) == c \in 128 .. 191

\* bytes.decode(): [ok, text]; ok is FALSE where Python raises
\* UnicodeDecodeError.  A byte string decodes when every byte is ASCII, a
\* lead byte with a continuation byte after it, or a continuation byte with
\* a lead byte before it.
Decodable(b) ==
    \A i \in 1 .. Len(b) :
        \/ b[i] < 128
        \/ IsLead(b[i]) /\ i < Len(b) /\ IsCont(b[i + 1])
        \/ IsCont(b[i]) /\ i > 1 /\ IsLead(b[i - 1])

\* the text of a decodable byte string: one character for every byte that
\* is no continuation byte
DecodedText(b) ==
    LET at == [i \in 1 .. Len(b) |->
                  IF b[i] < 128 THEN b[i]
                  ELSE IF b[i] = 194 THEN b[i + 1]
                  ELSE IF b[i] = 195 THEN b[i + 1] + 64
                  ELSE -1]
    IN  SelectSeq(at, LAMBDA c : c >= 0)

decode(b) ==
    IF Decodable(b) THEN [ok |-> TRUE, text |-> DecodedText(b)]
    ELSE [ok |-> FALSE, text |-> <<>>]

Take(s, n) == SubSeq(s, 1, IF Len(s) < n THEN Len(s) ELSE n)

\* "Hello from P<pid>"
Hello(pid) == <<72, 101, 108, 108, 111, 32, 102, 114, 111, 109, 32, 80, 48 + pid>>

\* payloads of the test clients: "A", "BC", "A\0B"
Payloads == {<<65>>, <<66, 67>>, <<65, 0, 66>>}

\* ---------------------------------------------------------------- state
VARIABLES
    kind,        \* which channel class the run uses
    in_,         \* PipeChannel: the messages in the pipe, oldest first
    q_buf,       \* QueueChannel: per process, what put() buffered for the feeder
    q_pipe,      \* QueueChannel: the messages in the queue's pipe
    buf, src, ts, lock, updated,   \* SharedMemoryChannel fields
    clock,       \* time.time() as sampled by send
    diag,        \* the Diagnostics copy of each process
    pc, data, msg, owner,          \* per process: position and locals
    sent, delivered,               \* history: messages sent / returned by recv
    h, calls, pend, overlap,       \* test clients: completed calls, bookkeeping
    control_q,   \* per worker: the STOP token's way through its control queue
    log,         \* per worker: the lines it put on log_q
    lock_A, lock_B,                \* the demo locks' holders
    deadlock_mode, locks,          \* worker arguments: the flag, locks supplied
    has_diag,    \* whether a Diagnostics is passed to recv
    runner, cpc, alive,            \* the coordinator, the live worker processes
    alert_                         \* Backend._alert

chanVars == <<in_, q_buf, q_pipe, buf, src, ts, lock, updated, clock>>
procVars == <<pc, data, msg, owner>>
histVars == <<sent, delivered>>
testVars == <<h, calls, pend, overlap>>
runVars  == <<control_q, log, lock_A, lock_B, deadlock_mode, locks, has_diag,
              runner, cpc, alive, alert_>>
vars == <<kind, chanVars, diag, procVars, histVars, testVars, runVars>>

\* ---------------------------------------------------------------- Diagnostics
\* wait_graph is a dict: keys keeps its insertion order, edges its values
\* (the empty set for a pid that is no key).  last_access[pid] = 0: no entry.
\* alert is the reported chain of pids, <<>> for the empty string.
NewDiagnostics ==
    [keys |-> <<>>, edges |-> [p \in Procs |-> {}],
     last_access |-> [p \in Procs |-> 0], alert |-> <<>>]

InSeq(x, s) == \E i \in 1 .. Len(s) : s[i] = x
IndexOf(x, s) == CHOOSE i \in 1 .. Len(s) : s[i] = x /\ \A j \in 1 .. (i - 1) : s[j] # x

\* the elements of a set of small ints in the order CPython iterates them
RECURSIVE SetToSeq(_)
SetToSeq(S) ==
    IF S = {} THEN <<>>
    ELSE LET m == CHOOSE x \in S : \A y \in S : x <= y
         IN  <<m>> \o SetToSeq(S \ {m})

RECURSIVE dfs(_, _, _, _)
RECURSIVE dfsEach(_, _, _, _)
\* dfs(node) of check_deadlock, with visited and path passed along:
\* [found, cycle, visited]
dfs(edges, node, visited, path) ==
    IF InSeq(node, path)
    THEN [found |-> TRUE,
          cycle |-> SubSeq(path, IndexOf(node, path), Len(path)) \o <<node>>,
          visited |-> visited]
    ELSE IF node \in visited
    THEN [found |-> FALSE, cycle |-> <<>>, visited |-> visited]
    ELSE dfsEach(edges, SetToSeq(edges[node]), visited \cup {node}, Append(path, node))

\* the loop over the neighbours of the node last put on path
dfsEach(edges, ns, visited, path) ==
    IF ns = <<>>
    THEN [found |-> FALSE, cycle |-> <<>>, visited |-> visited]
    ELSE LET r == dfs(edges, Head(ns), visited, path)
         IN  IF r.found THEN r ELSE dfsEach(edges, Tail(ns), r.visited, path)

RECURSIVE dfsRoots(_, _, _)
\* the loop "for n in list(self.wait_graph.keys())"
dfsRoots(edges, roots, visited) ==
    IF roots = <<>> THEN <<>>
    ELSE LET r == dfs(edges, Head(roots), visited, <<>>)
         IN  IF r.found THEN r.cycle ELSE dfsRoots(edges, Tail(roots), r.visited)

\* a detection that breaks the cycle it reports
check_deadlock_break(d) ==
    LET c == dfsRoots(d.edges, d.keys, {})
    IN  IF c = <<>> THEN [d EXCEPT !.alert = <<>>]
        ELSE [d EXCEPT !.alert = c, !.edges[c[1]] = {}]

check_deadlock_stale(d) ==
    IF dfsRoots(d.edges, d.keys, {}) = <<>> THEN d
    ELSE [d EXCEPT !.alert = dfsRoots(d.edges, d.keys, {})]
\* self.alert = "", then the first cycle a dfs finds
check_deadlock(d) == [d EXCEPT !.alert = dfsRoots(d.edges, d.keys, {})]

add_wait(d, waiter, own) ==
    check_deadlock(
        [d EXCEPT !.keys = IF InSeq(waiter, d.keys) THEN d.keys ELSE Append(d.keys, waiter),
                  !.edges[waiter] = d.edges[waiter] \cup {own}])

remove_wait_nocheck(d, waiter) ==
    [d EXCEPT !.keys = SelectSeq(d.keys, LAMBDA k : k # waiter), !.edges[waiter] = {}]

remove_wait(d, waiter) ==
    check_deadlock(
        [d EXCEPT !.keys = SelectSeq(d.keys, LAMBDA k : k # waiter),
                  !.edges[waiter] = {}])

update_access(d, pid, now) == [d EXCEPT !.last_access[pid] = now]

get_bottlenecks_atleast(d, now) ==
    LET idle == {p \in Procs : d.last_access[p] # 0 /\ now - d.last_access[p] >= IdleAfter}
    IN  IF idle = {} THEN NoAlert ELSE [tag |-> "Idle", pids |-> SetToSeq(idle)]
get_bottlenecks(d, now) ==
    LET idle == {p \in Procs : d.last_access[p] # 0 /\ now - d.last_access[p] > IdleAfter}
    IN  IF idle = {} THEN NoAlert ELSE [tag |-> "Idle", pids |-> SetToSeq(idle)]

\* ---------------------------------------------------------------- channels
\* the tuple (src, data, time.time()) a pipe or a queue carries
Wire(s, x, t) == [src |-> s, data |-> x, ts |-> t]
FromWire(w, dst) == Message(w.src, dst, w.data, w.ts)

\* Connection.send / the feeder's write: the pipe once message w is written
AfterSend_overwrite(q, w) == <<w>>
AfterSend(q, w) == Append(q, w)

\* Connection.recv / Queue.get_nowait: what is left once the oldest message is read
AfterRecv_peek(q) == q
AfterRecv(q) == Tail(q)

\* buf holds the array up to the last byte ever written; the bytes after
\* it, up to BufSize, are the zeros the array was made with.
\* SharedMemoryChannel.send: buf[:len(b)] = b; buf[len(b)] = 0
WriteBuf_unterminated(old, b) ==
    [i \in 1 .. (IF Len(old) > Len(b) THEN Len(old) ELSE Len(b)) |->
        IF i <= Len(b) THEN b[i] ELSE old[i]]
WriteBuf(old, b) ==
    [i \in 1 .. (IF Len(old) > Len(b) + 1 THEN Len(old) ELSE Len(b) + 1) |->
        IF i <= Len(b) THEN b[i] ELSE IF i = Len(b) + 1 THEN 0 ELSE old[i]]

\* SharedMemoryChannel.recv: buf[:].split(b'\x00', 1)[0]
RawBuf(b) ==
    IF \E i \in 1 .. Len(b) : b[i] = 0
    THEN LET z == CHOOSE i \in 1 .. Len(b) : b[i] = 0 /\ \A j \in 1 .. (i - 1) : b[j] # 0
         IN  SubSeq(b, 1, z - 1)
    ELSE b

\* SharedMemoryChannel.recv: ts.value after a message was read
TsAfterRecv(t) == 0

\* A call is made at position `at`; it returns to position done.ret, or
\* raises into the caller's handlers: at done.closed for BrokenPipeError and
\* EOFError, at done.exc for any other exception; a recv leaves its result in
\* msg.  The call's locals (send's data, recv's owner) end with the call.
Return(p, done) ==
    /\ pc' = [pc EXCEPT ![p] = done.ret]
    /\ data' = [data EXCEPT ![p] = <<>>]

RecvReturn(p, done, m) ==
    /\ pc' = [pc EXCEPT ![p] = IF m = Raised THEN done.exc
                               ELSE IF m = Closed THEN done.closed ELSE done.ret]
    /\ owner' = [owner EXCEPT ![p] = -1]
    /\ msg' = [msg EXCEPT ![p] = m]
    /\ delivered' = IF m.src >= 0 THEN Append(delivered, m) ELSE delivered

\* PipeChannel.send
PipeSend(p, at, x, done) ==
    /\ kind = "Pipe" /\ pc[p] = at
    /\ clock' = clock + 1
    /\ in_' = AfterSend(in_, Wire(p, x, clock'))
    /\ sent' = Append(sent, Wire(p, x, clock'))
    /\ Return(p, done)
    /\ UNCHANGED <<q_buf, q_pipe, buf, src, ts, lock, updated, diag, msg, owner, delivered>>

\* PipeChannel.recv, "if self.in_.poll()"
PipePoll(p, at, done) ==
    /\ kind = "Pipe" /\ pc[p] = at
    /\ IF in_ # <<>>
       THEN /\ pc' = [pc EXCEPT ![p] = "pipe_recv"]
            /\ UNCHANGED <<msg, owner, delivered>>
       ELSE RecvReturn(p, done, None)
    /\ UNCHANGED <<chanVars, diag, data, sent>>

\* PipeChannel.recv, "self.in_.recv()": waits until the pipe holds a message
PipeRecv(p, done) ==
    /\ kind = "Pipe" /\ pc[p] = "pipe_recv"
    /\ in_ # <<>>
    /\ in_' = AfterRecv(in_)
    /\ RecvReturn(p, done, FromWire(Head(in_), p))
    /\ UNCHANGED <<q_buf, q_pipe, buf, src, ts, lock, updated, clock, diag, data, sent>>

\* QueueChannel.send: Queue.put leaves the tuple in the caller's feeder buffer
QueueSend(p, at, x, done) ==
    /\ kind = "MsgQueue" /\ pc[p] = at
    /\ clock' = clock + 1
    /\ q_buf' = [q_buf EXCEPT ![p] = Append(@, Wire(p, x, clock'))]
    /\ sent' = Append(sent, Wire(p, x, clock'))
    /\ Return(p, done)
    /\ UNCHANGED <<in_, q_pipe, buf, src, ts, lock, updated, diag, msg, owner, delivered>>

\* the feeder thread of process p's handle of the channel's Queue
QueueFeed(p) ==
    /\ q_buf[p] # <<>>
    /\ q_pipe' = AfterSend(q_pipe, Head(q_buf[p]))
    /\ q_buf' = [q_buf EXCEPT ![p] = Tail(@)]
    /\ UNCHANGED <<in_, buf, src, ts, lock, updated, clock, diag, procVars, histVars>>

\* QueueChannel.recv: "except Exception: return None"
OnEmpty_raise == Raised
OnEmpty == None

\* QueueChannel.recv: get_nowait, Empty caught
QueueRecv(p, at, done) ==
    /\ kind = "MsgQueue" /\ pc[p] = at
    /\ IF q_pipe # <<>>
       THEN /\ q_pipe' = AfterRecv(q_pipe)
            /\ RecvReturn(p, done, FromWire(Head(q_pipe), p))
       ELSE /\ q_pipe' = q_pipe
            /\ RecvReturn(p, done, OnEmpty)
    /\ UNCHANGED <<in_, q_buf, buf, src, ts, lock, updated, clock, diag, data, sent>>

\* SharedMemoryChannel.send, "with self.lock:" entered
ShmSendLock(p, at, x) ==
    /\ kind = "SharedMem" /\ pc[p] = at
    /\ lock = Free
    /\ lock' = p
    /\ data' = [data EXCEPT ![p] = x]
    /\ pc' = [pc EXCEPT ![p] = "send_crit"]
    /\ UNCHANGED <<in_, q_buf, q_pipe, buf, src, ts, updated, clock, diag, msg, owner,
                   histVars>>

\* SharedMemoryChannel.send, the body under the lock
ShmSendCrit(p, done) ==
    /\ kind = "SharedMem" /\ pc[p] = "send_crit"
    /\ buf' = WriteBuf(buf, Take(encode(data[p]), BufSize - 1))
    /\ src' = p
    /\ clock' = clock + 1
    /\ ts' = clock'
    /\ updated' = TRUE
    /\ lock' = Free
    /\ sent' = Append(sent, Wire(p, data[p], clock'))
    /\ Return(p, done)
    /\ UNCHANGED <<in_, q_buf, q_pipe, diag, msg, owner, delivered>>

\* SharedMemoryChannel.recv, "self.updated.wait(timeout=0.1)"
ShmWait(p, at) ==
    /\ kind = "SharedMem" /\ pc[p] = at
    /\ pc' = [pc EXCEPT ![p] = IF updated THEN "shm_lock" ELSE "shm_probe"]
    /\ UNCHANGED <<chanVars, diag, data, msg, owner, histVars>>

\* SharedMemoryChannel.recv, "with self.lock:" entered
ShmRecvLock(p) ==
    /\ kind = "SharedMem" /\ pc[p] = "shm_lock"
    /\ lock = Free
    /\ lock' = p
    /\ pc' = [pc EXCEPT ![p] = "shm_crit"]
    /\ UNCHANGED <<in_, q_buf, q_pipe, buf, src, ts, updated, clock, diag, data, msg,
                   owner, histVars>>

\* SharedMemoryChannel.recv, the body under the lock
ShmRecvCrit(p, done) ==
    /\ kind = "SharedMem" /\ pc[p] = "shm_crit"
    /\ lock' = Free
    /\ IF ts > 0
       THEN LET r == decode(RawBuf(buf))
            IN  IF r.ok
                THEN /\ ts' = TsAfterRecv(ts)
                     /\ updated' = FALSE
                     /\ diag' = IF has_diag
                                THEN [diag EXCEPT ![p] = update_access(@, p, clock)]
                                ELSE diag
                     /\ RecvReturn(p, done, Message(src, p, r.text, ts))
                ELSE /\ RecvReturn(p, done, Raised)
                     /\ UNCHANGED <<ts, updated, diag>>
       ELSE /\ pc' = [pc EXCEPT ![p] = "shm_probe"]
            /\ UNCHANGED <<ts, updated, diag, msg, owner, delivered>>
    /\ UNCHANGED <<in_, q_buf, q_pipe, buf, src, clock, data, sent>>

\* a receive that records an access although it returns nothing
ShmProbe_touch(p, done) ==
    /\ kind = "SharedMem" /\ pc[p] = "shm_probe"
    /\ IF lock = Free
       THEN /\ diag' = [diag EXCEPT ![p] = update_access(@, p, clock)]
            /\ RecvReturn(p, done, None)
       ELSE /\ pc' = [pc EXCEPT ![p] = "shm_owner"]
            /\ UNCHANGED <<diag, msg, owner, delivered>>
    /\ UNCHANGED <<chanVars, data, sent>>

\* SharedMemoryChannel.recv, "if not self.lock.acquire(block=False)"
ShmProbe(p, done) ==
    /\ kind = "SharedMem" /\ pc[p] = "shm_probe"
    /\ IF lock = Free
       THEN RecvReturn(p, done, None)
       ELSE /\ pc' = [pc EXCEPT ![p] = "shm_owner"]
            /\ UNCHANGED <<msg, owner, delivered>>
    /\ UNCHANGED <<chanVars, diag, data, sent>>

\* SharedMemoryChannel.recv, "owner = self.src.value" and add_wait
ShmOwner(p, done) ==
    /\ kind = "SharedMem" /\ pc[p] = "shm_owner"
    /\ IF src >= 0 /\ has_diag
       THEN /\ owner' = [owner EXCEPT ![p] = src]
            /\ diag' = [diag EXCEPT ![p] = add_wait(@, p, src)]
            /\ pc' = [pc EXCEPT ![p] = "shm_sleep"]
            /\ UNCHANGED <<msg, delivered>>
       ELSE /\ diag' = diag
            /\ RecvReturn(p, done, None)
    /\ UNCHANGED <<chanVars, data, sent>>

\* a receive that returns from the delay without remove_wait
ShmSleep_noremove(p, done) ==
    /\ kind = "SharedMem" /\ pc[p] = "shm_sleep"
    /\ diag' = diag
    /\ RecvReturn(p, done, None)
    /\ UNCHANGED <<chanVars, data, sent>>

\* SharedMemoryChannel.recv, after "time.sleep(0.15)": remove_wait
ShmSleep(p, done) ==
    /\ kind = "SharedMem" /\ pc[p] = "shm_sleep"
    /\ diag' = [diag EXCEPT ![p] = remove_wait(@, p)]
    /\ RecvReturn(p, done, None)
    /\ UNCHANGED <<chanVars, data, sent>>

\* channel.send(p, x): its first step, made at `at`, and its later steps
SendBegin(p, at, x, done) ==
    \/ PipeSend(p, at, x, done)
    \/ QueueSend(p, at, x, done)
    \/ ShmSendLock(p, at, x)

SendMore(p, done) == ShmSendCrit(p, done)

\* channel.recv(p, diag): its first step, made at `at`, and its later steps
RecvBegin(p, at, done) ==
    \/ PipePoll(p, at, done)
    \/ QueueRecv(p, at, done)
    \/ ShmWait(p, at)

RecvMore(p, done) ==
    \/ PipeRecv(p, done)
    \/ ShmRecvLock(p)
    \/ ShmRecvCrit(p, done)
    \/ ShmProbe(p, done)
    \/ ShmOwner(p, done)
    \/ ShmSleep(p, done)

InSend(p) == pc[p] = "send_crit"
InRecv(p) == pc[p] \in {"pipe_recv", "shm_lock", "shm_crit", "shm_probe", "shm_owner",
                        "shm_sleep"}

\* ---------------------------------------------------------------- test clients
\* Processes that call send and recv on one shared channel in any order, as
\* tests/test_ipc_engine.py does; h lists the completed calls.
NoRun ==
    /\ control_q = [p \in Procs |-> "none"]
    /\ log = [p \in Procs |-> <<>>]
    /\ lock_A = Free /\ lock_B = Free
    /\ deadlock_mode = FALSE /\ locks = FALSE
    /\ runner = "test" /\ cpc = "idle"
    /\ alive = {}
    /\ alert_ = NoAlert

\* the channels, the Diagnostics copies and the locals as made, with
\* time.time() at `now`
ChanInitAt(now) ==
    /\ in_ = <<>>
    /\ q_buf = [p \in Owners |-> <<>>]
    /\ q_pipe = <<>>
    /\ buf = <<>>
    /\ src = -1 /\ ts = 0 /\ lock = Free /\ updated = FALSE
    /\ clock = now
    /\ diag = [o \in Owners |-> NewDiagnostics]
    /\ data = [p \in Procs |-> <<>>]
    /\ msg = [p \in Procs |-> None]
    /\ owner = [p \in Procs |-> -1]
    /\ sent = <<>> /\ delivered = <<>>

ChanInit == ChanInitAt(0)

TestInitAt(k, now) ==
    /\ kind = k
    /\ ChanInitAt(now)
    /\ pc = [p \in Procs |-> "idle"]
    /\ h = <<>> /\ calls = 0
    /\ pend = [p \in Procs |-> 0]
    /\ overlap = [p \in Procs |-> FALSE]
    /\ NoRun
    /\ has_diag = (kind = "SharedMem")

TestInit(k) == TestInitAt(k, 0)

\* messages sent and not yet returned by a recv (pipe, queue)
Unreceived == Len(sent) - Len(delivered)

\* a test client takes up every outcome of a call where it made the call
Idle == [ret |-> "idle", exc |-> "idle", closed |-> "idle"]

\* a completed call, as h records it: pend is Unreceived when the call was
\* made, solo tells that no other client was inside a call meanwhile
Entry(op, p, x, m, n, o) ==
    [op |-> op, who |-> p, data |-> x, res |-> m, pend |-> n, solo |-> ~o]

Begin(p) ==
    /\ pc[p] = "idle"
    /\ calls < MaxOps
    /\ calls' = calls + 1
    /\ pend' = [pend EXCEPT ![p] = Unreceived]
    /\ overlap' = [q \in Procs |->
                      IF q = p THEN \E r \in Procs \ {p} : pc[r] # "idle"
                      ELSE overlap[q] \/ pc[q] # "idle"]

CallSend(p, x) ==
    /\ Begin(p)
    /\ SendBegin(p, "idle", x, Idle)
    /\ h' = IF pc'[p] = "idle"
            THEN Append(h, Entry("send", p, x, None, pend'[p], overlap'[p]))
            ELSE h
    /\ UNCHANGED <<kind, runVars>>

CallRecv(p) ==
    /\ Begin(p)
    /\ RecvBegin(p, "idle", Idle)
    /\ h' = IF pc'[p] = "idle"
            THEN Append(h, Entry("recv", p, <<>>, msg'[p], pend'[p], overlap'[p]))
            ELSE h
    /\ UNCHANGED <<kind, runVars>>

SendDone(p) ==
    /\ SendMore(p, Idle)
    /\ h' = IF pc'[p] = "idle"
            THEN Append(h, Entry("send", p, data[p], None, pend[p], overlap[p]))
            ELSE h
    /\ UNCHANGED <<kind, calls, pend, overlap, runVars>>

RecvDone(p) ==
    /\ RecvMore(p, Idle)
    /\ h' = IF pc'[p] = "idle"
            THEN Append(h, Entry("recv", p, <<>>, msg'[p], pend[p], overlap[p]))
            ELSE h
    /\ UNCHANGED <<kind, calls, pend, overlap, runVars>>

Feeder(p) ==
    /\ QueueFeed(p)
    /\ UNCHANGED <<kind, testVars, runVars>>

PipeNext ==
    \/ \E p \in Callers, x \in Payloads : CallSend(p, x)
    \/ \E p \in Callers : CallRecv(p)
    \/ \E p \in Callers : RecvDone(p)

QueueNext ==
    \/ \E p \in Callers, x \in Payloads : CallSend(p, x)
    \/ \E p \in Callers : CallRecv(p)
    \/ \E p \in Callers : Feeder(p)

ShmNext ==
    \/ \E p \in Callers, x \in Payloads : CallSend(p, x)
    \/ \E p \in Callers : CallRecv(p)
    \/ \E p \in Callers : SendDone(p)
    \/ \E p \in Callers : RecvDone(p)

TestNext ==
    \/ \E p \in Callers, x \in Payloads : CallSend(p, x)
    \/ \E p \in Callers : CallRecv(p)
    \/ \E p \in Callers : SendDone(p)
    \/ \E p \in Callers : RecvDone(p)
    \/ \E p \in Callers : Feeder(p)

SpecPipe == TestInit("Pipe") /\ [][PipeNext]_vars
SpecQueue == TestInit("MsgQueue") /\ [][QueueNext]_vars
SpecShm == TestInit("SharedMem") /\ [][ShmNext]_vars
SpecChan == (\E k \in Kinds : TestInit(k)) /\ [][TestNext]_vars

\* ---------------------------------------------------------------- channel claims
IsSend(i) == i \in 1 .. Len(h) /\ h[i].op = "send" /\ h[i].solo
IsRecv(i) == i \in 1 .. Len(h) /\ h[i].op = "recv" /\ h[i].solo
\* the Message a recv by h[j].who returns for the send h[i]
Carries(j, i) ==
    /\ h[j].res.data = h[i].data
    /\ h[j].res.src = h[i].who
    /\ h[j].res.dst = h[j].who

\* C1 (as claimed): on a QueueChannel the k-th message returned by recv is the
\* k-th message sent, with its payload and source, and a recv returns nothing
\* exactly when no sent message is unreceived.
C1_QueueFifo ==
    kind = "MsgQueue" =>
        /\ \A k \in 1 .. Len(delivered) :
               delivered[k] = FromWire(sent[k], delivered[k].dst)
        /\ \A i \in 1 .. Len(h) :
               h[i].op = "recv" => (h[i].res = None <=> h[i].pend = 0)

\* a payload the shared buffer holds whole: at most 255 bytes, no zero byte
\* (UTF-8 has a zero byte for the character NUL only)
Fits(x) == Len(encode(x)) <= BufSize - 1 /\ \A i \in 1 .. Len(x) : x[i] # 0

C3_PipeRoundTrip ==
    kind = "Pipe" =>
        \A i \in 1 .. Len(h) :
            (IsSend(i) /\ h[i].pend = 0 /\ IsRecv(i + 1)) =>
                /\ Carries(i + 1, i)
                /\ IsRecv(i + 2) => h[i + 2].res = None

C3_Witness ==
    /\ kind = "Pipe" /\ Len(h) >= 3
    /\ IsSend(1) /\ IsRecv(2) /\ IsRecv(3)
    /\ h[1].who # h[2].who
    /\ Carries(2, 1) /\ h[3].res = None

C9_RecvNeverWaits == \A p \in Procs : ~(pc[p] = "pipe_recv" /\ in_ = <<>>)

\* C10: whatever the channel, no sent message is returned by two recv calls,
\* and every message returned is one that was sent.
C10_AtMostOnce ==
    /\ \A i, j \in 1 .. Len(delivered) :
           i # j => delivered[i].timestamp # delivered[j].timestamp
    /\ \A i \in 1 .. Len(delivered) :
           \E k \in 1 .. Len(sent) :
               /\ sent[k].ts = delivered[i].timestamp
               /\ sent[k].src = delivered[i].src

\* two receivers were inside recv at once and one message was handed out
C10_Witness ==
    /\ Len(delivered) = 1
    /\ \E i, j \in 1 .. Len(h) :
           /\ i # j /\ h[i].op = "recv" /\ h[j].op = "recv"
           /\ ~h[i].solo /\ ~h[j].solo
           /\ h[i].res # None /\ h[j].res = None

\* ---------------------------------------------------------------- Diagnostics alone
\* One Diagnostics object (the coordinator's) and any calls of add_wait,
\* remove_wait and check_deadlock on it; h holds the last call: its arguments
\* (who, pend), the alert before it (res) and the alert it left (data).
DiagInit ==
    /\ TestInit("SharedMem")
    /\ runner = "test"

DiagCall(op, a, b, d) ==
    /\ calls < MaxDiagOps
    /\ calls' = calls + 1
    /\ diag' = [diag EXCEPT ![Coord] = d]
    /\ h' = <<Entry(op, a, d.alert, diag[Coord].alert, b, FALSE)>>
    /\ UNCHANGED <<kind, chanVars, procVars, histVars, pend, overlap, runVars>>

DAddWait(a, b) == DiagCall("add_wait", a, b, add_wait(diag[Coord], a, b))
DRemoveWait(a) == DiagCall("remove_wait", a, -1, remove_wait(diag[Coord], a))
DCheckDeadlock == DiagCall("check_deadlock", -1, -1, check_deadlock(diag[Coord]))

DiagNext ==
    \/ \E a, b \in Procs : DAddWait(a, b)
    \/ \E a \in Procs : DRemoveWait(a)
    \/ DCheckDeadlock

SpecDiag == DiagInit /\ [][DiagNext]_vars

\* the pids reachable from n along one or more edges
RECURSIVE ReachFrom(_, _, _)
ReachFrom(edges, front, seen) ==
    LET next == UNION {edges[x] : x \in front}
    IN  IF next \subseteq seen THEN seen ELSE ReachFrom(edges, next \ seen, seen \cup next)

OnCycle(edges, n) == n \in ReachFrom(edges, {n}, {})
Cyclic(edges) == \E n \in Procs : OnCycle(edges, n)
Without(edges, n) == [edges EXCEPT ![n] = {}]

\* a -> b -> a is the one cycle of the graph
OnlyCycle(edges, a, b) ==
    /\ b \in edges[a] /\ a \in edges[b]
    /\ ~Cyclic(Without(edges, a)) /\ ~Cyclic(Without(edges, b))
    /\ a # b => (a \notin edges[a] /\ b \notin edges[b])

\* C5: whenever the wait graph holds a cycle the alert is not empty; when
\* a -> b -> a is its one cycle the alert names both a and b; and once a
\* remove_wait has left the graph without a cycle the alert is empty.
C5_CycleAlert ==
    runner = "test" =>
        LET d == diag[Coord]
        IN  /\ Cyclic(d.edges) => d.alert # <<>>
            /\ \A a, b \in Procs :
                   OnlyCycle(d.edges, a, b) => (InSeq(a, d.alert) /\ InSeq(b, d.alert))
            /\ (h # <<>> /\ h[Len(h)].op = "remove_wait" /\ ~Cyclic(d.edges))
                   => d.alert = <<>>

\* add_wait(2, 3) and add_wait(3, 2) had raised an alert naming P2 and P3, and
\* remove_wait(3) has just cleared it
C5_Witness ==
    /\ runner = "test" /\ Len(h) = 1
    /\ h[1].op = "remove_wait" /\ h[1].who = 3
    /\ InSeq(2, h[1].res) /\ InSeq(3, h[1].res)
    /\ h[1].data = <<>> /\ diag[Coord].alert = <<>>
    /\ 3 \in diag[Coord].edges[2]

\* C13: after check_deadlock the alert is non-empty exactly when the wait
\* graph holds a directed cycle; a non-empty alert is a chain that begins and
\* ends with the same pid and whose every step x -> y is an edge of the
\* graph; with no cycle the alert is empty whatever it was before.
C13_AlertIffCycle ==
    runner = "test" =>
        LET d == diag[Coord]
            a == d.alert
        IN  /\ a # <<>> <=> Cyclic(d.edges)
            /\ a # <<>> =>
                   /\ Len(a) >= 2 /\ a[1] = a[Len(a)]
                   /\ \A i \in 1 .. (Len(a) - 1) : a[i + 1] \in d.edges[a[i]]

\* a third add_wait closed a cycle of three and the alert, empty before,
\* is the chain around it
C13_Witness ==
    /\ runner = "test" /\ Len(h) = 1
    /\ h[1].op = "add_wait" /\ h[1].res = <<>>
    /\ Len(diag[Coord].alert) = 4
    /\ Cardinality({diag[Coord].alert[i] : i \in 1 .. 4}) = 3

\* ---------------------------------------------------------------- idle report
\* One Diagnostics object, time passing, and any calls of update_access and
\* get_bottlenecks on it.  pend[p] is the time since update_access(p) was last
\* called (since the object was made where it never was), overlap[p] tells
\* whether it ever was called; h holds the last call and, for
\* get_bottlenecks, what it returned (res).
IdleInit == TestInitAt("SharedMem", 1)

\* time.time() moves on by one unit
DTick ==
    /\ clock < MaxTime
    /\ clock' = clock + 1
    /\ pend' = [p \in Procs |-> pend[p] + 1]
    /\ h' = <<>>
    /\ UNCHANGED <<kind, in_, q_buf, q_pipe, buf, src, ts, lock, updated, diag, procVars,
                   histVars, calls, overlap, runVars>>

DUpdateAccess(p) ==
    /\ calls < MaxIdleOps
    /\ calls' = calls + 1
    /\ diag' = [diag EXCEPT ![Coord] = update_access(@, p, clock)]
    /\ pend' = [pend EXCEPT ![p] = 0]
    /\ overlap' = [overlap EXCEPT ![p] = TRUE]
    /\ h' = <<Entry("update_access", p, <<>>, NoAlert, 0, FALSE)>>
    /\ UNCHANGED <<kind, chanVars, procVars, histVars, runVars>>

DGetBottlenecks ==
    /\ calls < MaxIdleOps
    /\ calls' = calls + 1
    /\ h' = <<Entry("get_bottlenecks", -1, <<>>, get_bottlenecks(diag[Coord], clock), 0, FALSE)>>
    /\ UNCHANGED <<kind, chanVars, diag, procVars, histVars, pend, overlap, runVars>>

IdleNext ==
    \/ DTick
    \/ \E p \in Callers : DUpdateAccess(p)
    \/ DGetBottlenecks

SpecIdle == IdleInit /\ [][IdleNext]_vars

\* get_bottlenecks has just returned
Reported == h # <<>> /\ h[1].op = "get_bottlenecks"

\* C11 (as claimed): the report lists every pid that update_access has not
\* touched for longer than the threshold, and only those; it is empty when
\* there is none.
C11_IdleListed ==
    Reported =>
        /\ \A p \in Procs : InSeq(p, h[1].res.pids) <=> pend[p] > IdleAfter
        /\ h[1].res = NoAlert <=> \A p \in Procs : pend[p] <= IdleAfter

\* C11 (amended): the report lists every pid whose last update_access is
\* longer ago than the threshold, and only those: a pid update_access was
\* never called for is never listed; update_access(pid) takes pid off the
\* report until the threshold has passed again; the report is empty when it
\* lists no pid.
C11_IdleListedOnceTouched ==
    Reported =>
        /\ \A p \in Procs :
               InSeq(p, h[1].res.pids) <=> (overlap[p] /\ pend[p] > IdleAfter)
        /\ h[1].res = NoAlert <=> \A p \in Procs : ~(overlap[p] /\ pend[p] > IdleAfter)
        /\ h[1].res # NoAlert => h[1].res.tag = "Idle"

\* P0 was touched long ago and is reported, P1 was touched again in time and
\* is not
C11_Witness ==
    /\ Reported
    /\ overlap[0] /\ overlap[1]
    /\ pend[0] > IdleAfter /\ pend[1] = IdleAfter /\ clock - pend[1] > 1
    /\ h[1].res = [tag |-> "Idle", pids |-> <<0>>]

\* ---------------------------------------------------------------- process_worker
Line(t, a) == [text |-> t, arg |-> a]
Logged(p, lines) == log' = [log EXCEPT ![p] = @ \o lines]
HasLine(p, t) == \E i \in 1 .. Len(log[p]) : log[p][i].text = t
CountLine(p, t) == Cardinality({i \in 1 .. Len(log[p]) : log[p][i].text = t})

\* the process ends
Exit(p, where) ==
    /\ pc' = [pc EXCEPT ![p] = where]
    /\ alive' = alive \ {p}

\* the deadlock demo's roles: P2 takes Lock A then Lock B, P3 Lock B then Lock A
IsDemoRole(p) == p \in {2, 3}
AcquiringText(p) == IF p = 2 THEN "Acquiring Lock A..." ELSE "Acquiring Lock B..."
AcquiredFirstText(p) ==
    IF p = 2 THEN "Acquired Lock A. Simulating work..."
    ELSE "Acquired Lock B. Simulating work..."
TryingText(p) ==
    IF p = 2 THEN "Trying to acquire Lock B..." ELSE "Trying to acquire Lock A..."
AcquiredSecondText(p) == IF p = 2 THEN "Acquired Lock B." ELSE "Acquired Lock A."
FirstHolder(p) == IF p = 2 THEN lock_A ELSE lock_B
SecondHolder_unheld(p) == Free
SecondHolder(p) == IF p = 2 THEN lock_B ELSE lock_A

\* log("Started."), then the way into the demo or into the loop; with the
\* flag set and no lock handles, lock_A.acquire() on None raises outside the try
WStart(p) ==
    /\ p \in alive /\ pc[p] = "start"
    /\ IF deadlock_mode /\ IsDemoRole(p)
       THEN /\ Logged(p, <<Line("Started.", <<>>), Line(AcquiringText(p), <<>>)>>)
            /\ IF locks
               THEN pc' = [pc EXCEPT ![p] = "acq1"] /\ alive' = alive
               ELSE Exit(p, "crashed")
       ELSE /\ Logged(p, <<Line("Started.", <<>>)>>)
            /\ pc' = [pc EXCEPT ![p] = "loop"] /\ alive' = alive
    /\ UNCHANGED <<kind, chanVars, diag, data, msg, owner, histVars, testVars, control_q,
                   lock_A, lock_B, deadlock_mode, locks, has_diag, runner, cpc, alert_>>

\* the first acquire() of the demo
WAcquireFirst(p) ==
    /\ p \in alive /\ pc[p] = "acq1"
    /\ FirstHolder(p) = Free
    /\ IF p = 2 THEN lock_A' = p /\ lock_B' = lock_B ELSE lock_B' = p /\ lock_A' = lock_A
    /\ Logged(p, <<Line(AcquiredFirstText(p), <<>>)>>)
    /\ pc' = [pc EXCEPT ![p] = "sleep1"]
    /\ UNCHANGED <<kind, chanVars, diag, data, msg, owner, histVars, testVars, control_q,
                   deadlock_mode, locks, has_diag, runner, cpc, alive, alert_>>

\* time.sleep(1) is over
WSlept(p) ==
    /\ p \in alive /\ pc[p] = "sleep1"
    /\ Logged(p, <<Line(TryingText(p), <<>>)>>)
    /\ pc' = [pc EXCEPT ![p] = "acq2"]
    /\ UNCHANGED <<kind, chanVars, diag, data, msg, owner, histVars, testVars, control_q,
                   lock_A, lock_B, deadlock_mode, locks, has_diag, runner, cpc, alive,
                   alert_>>

\* the second acquire() returns; both locks are released
WAcquireSecond(p) ==
    /\ p \in alive /\ pc[p] = "acq2"
    /\ SecondHolder(p) = Free
    /\ lock_A' = Free /\ lock_B' = Free
    /\ Logged(p, <<Line(AcquiredSecondText(p), <<>>)>>)
    /\ pc' = [pc EXCEPT ![p] = "loop"]
    /\ UNCHANGED <<kind, chanVars, diag, data, msg, owner, histVars, testVars, control_q,
                   deadlock_mode, locks, has_diag, runner, cpc, alive, alert_>>

\* "not control_q.empty()" can hold: STOP was put.  Whether it holds at a
\* given look is up to the feeder thread of the coordinator's handle, which
\* writes the token to the queue's pipe some time after put() returned.
StopSeen(p) == control_q[p] = "put"

\* top of the loop, STOP seen: log("Stopping."), break
WStop_nobreak(p) ==
    /\ p \in alive /\ pc[p] = "loop"
    /\ StopSeen(p)
    /\ control_q' = [control_q EXCEPT ![p] = "got"]
    /\ Logged(p, <<Line("Stopping.", <<>>)>>)
    /\ UNCHANGED <<kind, chanVars, diag, procVars, histVars, testVars, lock_A,
                   lock_B, deadlock_mode, locks, has_diag, runner, cpc, alive, alert_>>
WStop(p) ==
    /\ p \in alive /\ pc[p] = "loop"
    /\ StopSeen(p)
    /\ control_q' = [control_q EXCEPT ![p] = "got"]
    /\ Logged(p, <<Line("Stopping.", <<>>)>>)
    /\ Exit(p, "stopped")
    /\ UNCHANGED <<kind, chanVars, diag, data, msg, owner, histVars, testVars, lock_A,
                   lock_B, deadlock_mode, locks, has_diag, runner, cpc, alert_>>

\* dst = random.randint(0, num_procs - 1), here r, remapped where it is pid
Remap(pid, num_procs, r) == IF r = pid THEN (pid + 1) % num_procs ELSE r

\* the destination for the random pick r
PickDst(p, r) == Remap(p, NumProcs, r)

\* where channel.recv returns to in the loop: snd tells whether the send
\* timer has run out
Back(snd) == [ret |-> IF snd THEN "send" ELSE "loop", exc |-> "error", closed |-> "closed"]

\* as many sends as the bound allows are made or under way
SendsUsed == Len(sent) + Cardinality({q \in Procs : pc[q] \in {"send", "send_crit"}})

\* the rest of the iteration once recv is back: the Received line, then
\* the Sending line if the send timer has run out; an exception out of recv
\* ends the loop with an ERROR line, or with the Channel closed line for
\* BrokenPipeError and EOFError
AfterRecvCall(p, snd, r) ==
    LET rcv == IF msg'[p] = None THEN <<>> ELSE <<Line("Received", <<msg'[p].src>>)>>
        sdg == IF snd THEN <<Line("Sending", <<PickDst(p, r)>>)>> ELSE <<>>
    IN  /\ log' = IF pc'[p] = "error" THEN [log EXCEPT ![p] = Append(@, Line("ERROR", <<>>))]
                  ELSE IF pc'[p] = "closed"
                  THEN [log EXCEPT ![p] = Append(@, Line("Channel closed. Exiting.", <<>>))]
                  ELSE IF pc'[p] \in {"loop", "send"} THEN [log EXCEPT ![p] = @ \o rcv \o sdg]
                  ELSE log
        /\ alive' = IF pc'[p] \in {"error", "closed"} THEN alive \ {p} ELSE alive

\* top of the loop, control_q.empty(): channel.recv(pid, diag) is called
WRecv(p) ==
    /\ p \in alive /\ pc[p] = "loop"
    /\ \E snd \in BOOLEAN, r \in Picks :
           /\ snd => SendsUsed < MaxSends
           /\ RecvBegin(p, "loop", Back(snd))
           /\ AfterRecvCall(p, snd, r)
    /\ UNCHANGED <<kind, testVars, control_q, lock_A, lock_B, deadlock_mode, locks,
                   has_diag, runner, cpc, alert_>>

WRecvMore(p) ==
    /\ p \in alive
    /\ \E snd \in BOOLEAN, r \in Picks :
           /\ snd => SendsUsed < MaxSends
           /\ RecvMore(p, Back(snd))
           /\ AfterRecvCall(p, snd, r)
    /\ UNCHANGED <<kind, testVars, control_q, lock_A, lock_B, deadlock_mode, locks,
                   has_diag, runner, cpc, alert_>>

\* channel.send(pid, "Hello from P<pid>")
WSend(p) ==
    /\ p \in alive /\ pc[p] = "send"
    /\ SendBegin(p, "send", Hello(p), Back(FALSE))
    /\ UNCHANGED <<kind, testVars, runVars>>

WSendMore(p) ==
    /\ p \in alive
    /\ SendMore(p, Back(FALSE))
    /\ UNCHANGED <<kind, testVars, runVars>>

\* the feeder thread of a worker's handle of the channel's Queue; a process
\* that ends by itself flushes it first, terminate() drops what it holds
WFeeder(p) ==
    /\ pc[p] # "killed"
    /\ QueueFeed(p)
    /\ UNCHANGED <<kind, testVars, runVars>>

\* the steps every worker has, the steps of the demo's two roles, and the
\* later steps of the calls that take more than one
RunSteps(p) ==
    \/ WStart(p)
    \/ WRecv(p)
    \/ WSend(p)

LoopSteps(p) ==
    \/ RunSteps(p)
    \/ WStop(p)

DemoSteps(p) ==
    \/ WAcquireFirst(p)
    \/ WSlept(p)
    \/ WAcquireSecond(p)

MoreSteps(p) ==
    \/ WRecvMore(p)
    \/ WSendMore(p)

Worker(p) ==
    \/ LoopSteps(p)
    \/ DemoSteps(p)
    \/ MoreSteps(p)

\* ---------------------------------------------------------------- coordinators
\* run_headless's finally block and Backend.stop: "STOP" is put on every
\* control queue
PostStop ==
    /\ runner # "test" /\ cpc = "running"
    /\ lock # Coord
    /\ control_q' = [p \in Procs |-> "put"]
    /\ cpc' = "stopping"
    /\ UNCHANGED <<kind, chanVars, diag, procVars, histVars, testVars, log, lock_A, lock_B,
                   deadlock_mode, locks, has_diag, runner, alive, alert_>>

\* a stop sequence that cannot end a worker blocked in acquire()
Terminate_unblocked(p) ==
    /\ cpc = "stopping" /\ p \in alive
    /\ pc[p] # "acq2"
    /\ \A q \in Procs : q < p => q \notin alive
    /\ Exit(p, "killed")
    /\ UNCHANGED <<kind, chanVars, diag, data, msg, owner, histVars, testVars, control_q,
                   log, lock_A, lock_B, deadlock_mode, locks, has_diag, runner, cpc, alert_>>

\* "for p in procs: p.join(timeout=1.0); if p.is_alive(): p.terminate()":
\* the joins of the workers before p have returned, p's join timed out.
\* What p holds (a lock, buffered queue items) stays as it is.
Terminate(p) ==
    /\ cpc = "stopping" /\ p \in alive
    /\ \A q \in Procs : q < p => q \notin alive
    /\ Exit(p, "killed")
    /\ UNCHANGED <<kind, chanVars, diag, data, msg, owner, histVars, testVars, control_q,
                   log, lock_A, lock_B, deadlock_mode, locks, has_diag, runner, cpc, alert_>>

\* every join has returned: the stop sequence is over
StopDone ==
    /\ cpc = "stopping" /\ alive = {}
    /\ cpc' = "idle"
    /\ UNCHANGED <<kind, chanVars, diag, procVars, histVars, testVars, control_q, log,
                   lock_A, lock_B, deadlock_mode, locks, has_diag, runner, alive, alert_>>

\* Backend.update_stats: channel.status() (SharedMemoryChannel.status takes
\* the channel's lock), then the alert from the coordinator's Diagnostics
StatusLock ==
    /\ runner = "backend" /\ cpc = "running"
    /\ kind = "SharedMem" /\ lock = Free
    /\ lock' = Coord
    /\ UNCHANGED <<kind, in_, q_buf, q_pipe, buf, src, ts, updated, clock, diag, procVars,
                   histVars, testVars, runVars>>

NewAlert(d, now) ==
    IF d.alert # <<>> THEN [tag |-> "DEADLOCK", pids |-> d.alert]
    ELSE get_bottlenecks(d, now)

UpdateStats ==
    /\ runner = "backend" /\ cpc = "running"
    /\ IF kind = "SharedMem" THEN lock = Coord /\ lock' = Free ELSE lock' = lock
    /\ IF has_diag
       THEN /\ diag' = [diag EXCEPT ![Coord] = check_deadlock(@)]
            /\ alert_' = NewAlert(diag'[Coord], clock)
       ELSE /\ diag' = diag
            /\ alert_' = NoAlert
    /\ UNCHANGED <<kind, in_, q_buf, q_pipe, buf, src, ts, updated, clock, procVars,
                   histVars, testVars, control_q, log, lock_A, lock_B, deadlock_mode, locks,
                   has_diag, runner, cpc, alive>>

\* ---------------------------------------------------------------- runs
RunInit(r, k, hd, dl, lk) ==
    /\ kind = k
    /\ ChanInit
    /\ pc = [p \in Procs |-> "start"]
    /\ h = <<>> /\ calls = 0
    /\ pend = [p \in Procs |-> 0]
    /\ overlap = [p \in Procs |-> FALSE]
    /\ control_q = [p \in Procs |-> "none"]
    /\ log = [p \in Procs |-> <<>>]
    /\ lock_A = Free /\ lock_B = Free
    /\ deadlock_mode = dl /\ locks = lk
    /\ has_diag = hd
    /\ runner = r /\ cpc = "running"
    /\ alive = Procs
    /\ alert_ = NoAlert

\* run_headless(4, seconds, deadlock): a QueueChannel and a Diagnostics, the
\* flag passed on, no lock handles
HeadlessInit == \E dl \in BOOLEAN : RunInit("headless", "MsgQueue", TRUE, dl, FALSE)

\* Backend.start(4, 2) with the deadlock demo switched on
DemoInit == RunInit("backend", "SharedMem", TRUE, TRUE, TRUE)

StopSequence ==
    \/ PostStop
    \/ \E p \in Procs : Terminate(p)
    \/ StopDone

HeadlessNext ==
    \/ \E p \in Procs : LoopSteps(p)
    \/ \E p \in Procs : WFeeder(p)
    \/ StopSequence

SpecHeadless == HeadlessInit /\ [][HeadlessNext]_vars

\* every live worker keeps running, a STOP that was put reaches its worker,
\* the coordinator's stop sequence, once begun, goes on to its end
FairHeadless ==
    /\ SpecHeadless
    /\ \A p \in Procs : WF_vars(LoopSteps(p))
    /\ \A p \in Procs : WF_vars(WStop(p))
    /\ WF_vars(\E p \in Procs : Terminate(p))

\* the demo while it runs, before Backend.stop: the workers and the
\* coordinator's stats timer
DemoNext ==
    \/ \E p \in Procs : RunSteps(p)
    \/ \E p \in Procs : DemoSteps(p)
    \/ \E p \in Procs : MoreSteps(p)
    \/ StatusLock
    \/ UpdateStats

SpecDemo == DemoInit /\ [][DemoNext]_vars

\* every live worker keeps running and the stats timer keeps firing
FairDemo ==
    /\ SpecDemo
    /\ \A p \in Procs : WF_vars(Worker(p))
    /\ WF_vars(StatusLock)
    /\ WF_vars(UpdateStats)

\* the demo up to the end of Backend.stop
DemoStopNext ==
    \/ \E p \in Procs : LoopSteps(p)
    \/ \E p \in Procs : DemoSteps(p)
    \/ \E p \in Procs : MoreSteps(p)
    \/ StopSequence

SpecDemoStop == DemoInit /\ [][DemoStopNext]_vars

\* the send logic's choice of a destination alone: worker pid of a run of
\* num_procs workers draws r; h holds the last choice: pid (who), num_procs
\* (pend), r (data) and the destination logged (res)
DPick(pid, num_procs, r) ==
    /\ calls < MaxPickOps
    /\ calls' = calls + 1
    /\ h' = <<Entry("pick", pid, <<r>>, Remap(pid, num_procs, r), num_procs, FALSE)>>
    /\ UNCHANGED <<kind, chanVars, diag, procVars, histVars, pend, overlap, runVars>>

PickNext ==
    \E num_procs \in 1 .. MaxNumProcs :
        \E pid \in 0 .. (num_procs - 1), r \in 0 .. (num_procs - 1) : DPick(pid, num_procs, r)

SpecPick == (\E k \in Kinds : TestInit(k)) /\ [][PickNext]_vars

\* any run without the demo, up to the end of its stop sequence:
\* run_headless(4, seconds, deadlock), or Backend.start(4, ipc_index) on any of
\* the three channels with the demo switched off (a Diagnostics is made for
\* the SharedMemoryChannel only)
AnyRunInit ==
    \/ HeadlessInit
    \/ \E k \in Kinds : RunInit("backend", k, k = "SharedMem", FALSE, FALSE)

AnyRunNext ==
    \/ \E p \in Procs : LoopSteps(p)
    \/ \E p \in Procs : MoreSteps(p)
    \/ \E p \in Procs : WFeeder(p)
    \/ StopSequence

SpecRun == AnyRunInit /\ [][AnyRunNext]_vars

\* ---------------------------------------------------------------- transport failures
\* A run on a PipeChannel or a QueueChannel in which a call of the channel
\* may hit a transport failure e: Closed for BrokenPipeError / EOFError,
\* Raised for any other exception.  h lists the failures: where (op), whose
\* call (who) and which (res).

\* PipeChannel.recv has no handler: the exception reaches the worker
PipeRecvFails(p, at, done, e) ==
    /\ kind = "Pipe" /\ pc[p] = at
    /\ RecvReturn(p, done, e)
    /\ UNCHANGED <<chanVars, diag, data, sent>>

\* QueueChannel.recv: "except Exception: return None" takes every exception
QueueRecvFails(p, at, done, e) ==
    /\ kind = "MsgQueue" /\ pc[p] = at
    /\ RecvReturn(p, done, OnEmpty)
    /\ UNCHANGED <<chanVars, diag, data, sent>>

\* PipeChannel.send and QueueChannel.send have no handler
SendFails(p, at, done, e) ==
    /\ kind \in {"Pipe", "MsgQueue"} /\ pc[p] = at
    /\ pc' = [pc EXCEPT ![p] = IF e = Closed THEN done.closed ELSE done.exc]
    /\ UNCHANGED <<chanVars, diag, data, msg, owner, histVars>>

Fault(p, op, e) ==
    /\ calls < MaxFaults
    /\ calls' = calls + 1
    /\ h' = Append(h, Entry(op, p, <<>>, e, 0, FALSE))
    /\ UNCHANGED <<pend, overlap>>

\* channel.recv(pid, diag) of the loop hits the failure
WRecvFault(p) ==
    /\ p \in alive /\ pc[p] = "loop"
    /\ \E snd \in BOOLEAN, r \in Picks, e \in {Closed, Raised} :
           /\ snd => SendsUsed < MaxSends
           /\ \/ PipeRecvFails(p, "loop", Back(snd), e)
              \/ QueueRecvFails(p, "loop", Back(snd), e)
           /\ AfterRecvCall(p, snd, r)
           /\ Fault(p, "recv", e)
    /\ UNCHANGED <<kind, control_q, lock_A, lock_B, deadlock_mode, locks, has_diag, runner,
                   cpc, alert_>>

\* channel.send(pid, data) of the loop hits the failure
WSendFault(p) ==
    /\ p \in alive /\ pc[p] = "send"
    /\ \E e \in {Closed, Raised} :
           /\ SendFails(p, "send", Back(FALSE), e)
           /\ Logged(p, <<Line(IF e = Closed THEN "Channel closed. Exiting." ELSE "ERROR",
                               <<>>)>>)
           /\ Fault(p, "send", e)
    /\ alive' = alive \ {p}
    /\ UNCHANGED <<kind, control_q, lock_A, lock_B, deadlock_mode, locks, has_diag, runner,
                   cpc, alert_>>

\* Backend.start(4, 0) or Backend.start(4, 1): no Diagnostics, no demo
FaultInit == \E k \in {"Pipe", "MsgQueue"} : RunInit("backend", k, FALSE, FALSE, FALSE)

FaultNext ==
    \/ \E p \in Procs : RunSteps(p)
    \/ \E p \in Procs : WRecvMore(p)
    \/ \E p \in Procs : WFeeder(p)
    \/ \E p \in Procs : WRecvFault(p)
    \/ \E p \in Procs : WSendFault(p)

SpecFault == FaultInit /\ [][FaultNext]_vars

\* the one line a failure of kind e ends a worker with
TerminalText(e) == IF e = Closed THEN "Channel closed. Exiting." ELSE "ERROR"

\* C12 (as claimed): a worker whose receive or send hit a transport failure
\* has logged exactly one terminal line, Channel closed. Exiting. for a closed
\* transport and ERROR for any other failure, that line is its last, and the
\* worker has stopped for good.
C12_FaultEndsWorker ==
    \A i \in 1 .. Len(h) :
        LET p == h[i].who
        IN  /\ p \notin alive
            /\ pc[p] \in {"closed", "error"}
            /\ log[p] # <<>>
            /\ log[p][Len(log[p])].text = TerminalText(h[i].res)
            /\ CountLine(p, "Channel closed. Exiting.") + CountLine(p, "ERROR") = 1

\* ---------------------------------------------------------------- run claims
Posted(p) == control_q[p] # "none"

\* what a headless run's logs never break: the first line of a worker is
\* Started., no line is an ERROR line, Stopping. is logged at most once and
\* a worker that left its loop on STOP has logged it exactly once
C6_Logs ==
    \A p \in Procs :
        /\ log[p] # <<>> => log[p][1].text = "Started."
        /\ ~HasLine(p, "ERROR")
        /\ CountLine(p, "Stopping.") <= 1
        /\ pc[p] = "stopped" => CountLine(p, "Stopping.") = 1

\* C6 as stated: in a run of 4 workers on one QueueChannel with deadlock
\* mode off, every worker's first line is Started., none logs an ERROR line,
\* and a worker whose control queue got STOP eventually logs Stopping.
\* exactly once and ends
C6_StopAlways ==
    /\ [](~deadlock_mode => C6_Logs)
    /\ \A p \in Procs :
           (~deadlock_mode /\ Posted(p))
               ~> (pc[p] = "stopped" /\ CountLine(p, "Stopping.") = 1)

\* C6 (amended): the same, where a worker whose control queue got STOP
\* eventually either logs Stopping. exactly once and ends, or is ended by the
\* coordinator's terminate() after the join timeout
C6_StopOrTerminated ==
    /\ [](~deadlock_mode => C6_Logs)
    /\ \A p \in Procs :
           (~deadlock_mode /\ Posted(p))
               ~> \/ pc[p] = "stopped" /\ CountLine(p, "Stopping.") = 1
                  \/ pc[p] = "killed"

C6_Witness ==
    /\ ~deadlock_mode /\ runner = "headless" /\ kind = "MsgQueue"
    /\ delivered # <<>>
    /\ \A p \in Procs : pc[p] = "stopped" /\ CountLine(p, "Stopping.") = 1
    /\ cpc = "idle"

\* both demo roles hold their first lock and wait for the other's
BothBlocked ==
    /\ pc[2] = "acq2" /\ pc[3] = "acq2"
    /\ lock_A = 2 /\ lock_B = 3

\* C7 as stated, its lasting half: in the deadlock demo worker 2 never logs
\* "Acquired Lock B." and worker 3 never logs the second-stage
\* "Acquired Lock A."
C7_NeverSecondLock ==
    /\ ~HasLine(2, "Acquired Lock B.")
    /\ ~HasLine(3, "Acquired Lock A.")

\* C8 as stated: once the two demo roles are blocked, the alert the
\* coordinator polls eventually is a deadlock description that names both
\* P2 and P3
C8_AlertNamesBoth ==
    BothBlocked
        ~> (alert_.tag = "DEADLOCK" /\ InSeq(2, alert_.pids) /\ InSeq(3, alert_.pids))

\* a step in which Stopping. is logged by p is made at the top of the loop
\* and ends the loop
StopAtTop(p) ==
    (~HasLine(p, "Stopping.") /\ \E i \in 1 .. Len(log'[p]) : log'[p][i].text = "Stopping.")
        => (pc[p] = "loop" /\ pc'[p] = "stopped")

\* a step that is no receive, send or log operation of p and in which p
\* changes neither the channel nor its Diagnostics
NoOpBy(p) ==
    /\ log'[p] = log[p]
    /\ pc'[p] = pc[p] /\ msg'[p] = msg[p] /\ data'[p] = data[p]
    /\ diag'[p] = diag[p]
    /\ (lock' = p) <=> (lock = p)
    /\ Len(sent') > Len(sent) => sent'[Len(sent')].src # p
    /\ Len(delivered') > Len(delivered) => delivered'[Len(delivered')].dst # p

\* C14 (as claimed): a worker logs Stopping. only at the top of a loop
\* iteration, and from then on no step is an operation of that worker or
\* changes the channel on its behalf.
C14_StoppedChangesNothing ==
    [][\A p \in Procs :
           /\ StopAtTop(p)
           /\ pc[p] = "stopped" => (NoOpBy(p) /\ q_buf'[p] = q_buf[p])]_vars

\* C14 (amended): the same, but for the queue's feeder thread of the stopped
\* worker's process, which still writes the messages the worker sent before
\* it stopped to the queue, oldest first.
C14_StoppedOnlyFlushes ==
    [][\A p \in Procs :
           /\ StopAtTop(p)
           /\ pc[p] = "stopped" =>
                  /\ NoOpBy(p)
                  /\ \/ q_buf'[p] = q_buf[p]
                     \/ /\ q_buf[p] # <<>> /\ q_buf'[p] = Tail(q_buf[p])
                        /\ q_pipe' = Append(q_pipe, Head(q_buf[p]))]_vars

\* worker 0 sent a message, then saw STOP and stopped; what it sent has
\* left its feeder and the run is over
C14_Witness ==
    /\ pc[0] = "stopped" /\ cpc = "idle"
    /\ HasLine(0, "Sending")
    /\ log[0][Len(log[0])].text = "Stopping."
    /\ q_buf[0] = <<>>
    /\ \E i \in 1 .. Len(sent) : sent[i].src = 0

\* C15 (as claimed): a worker is inside the demo's lock acquisitions only when
\* the flag is set, its id is 2 or 3 and the lock handles were supplied; in any
\* other configuration it goes from its Started. line into the loop and does
\* not fail on the way.
C15_DemoOnlyWithLocks ==
    \A p \in Procs :
        ~(deadlock_mode /\ IsDemoRole(p) /\ locks) =>
            /\ pc[p] \notin {"acq1", "sleep1", "acq2"}
            /\ pc[p] # "crashed"
            /\ \A i \in 1 .. Len(log[p]) : log[p][i].text # AcquiringText(p)

\* worker 2 holds Lock A and worker 3 holds Lock B
BothHold == lock_A = 2 /\ lock_B = 3

\* neither demo role is past its second acquire: none is in the loop, has
\* sent or received, or has logged Stopping.
NeitherPast ==
    \A p \in {2, 3} :
        /\ pc[p] \in {"sleep1", "acq2", "killed"}
        /\ ~HasLine(p, AcquiredSecondText(p))
        /\ ~HasLine(p, "Stopping.") /\ ~HasLine(p, "Sending") /\ ~HasLine(p, "Received")
        /\ \A i \in 1 .. Len(sent) : sent[i].src # p
        /\ \A i \in 1 .. Len(delivered) : delivered[i].dst # p

\* C16: once worker 2 holds Lock A while worker 3 holds Lock B, that stays so
\* in every continuation: neither gets past its second acquire, enters the
\* loop, sends, receives or logs Stopping., STOP posted or not, and no worker
\* ever holds both locks.
C16_BlockedForGood ==
    [][BothHold => (NeitherPast /\ BothHold' /\ NeitherPast')]_vars

\* both roles were blocked, STOP was posted, worker 0 stopped by itself and
\* the two roles were ended by terminate(), still holding their locks
C16_Witness ==
    /\ BothHold /\ cpc = "idle"
    /\ control_q[2] = "put" /\ control_q[3] = "put"
    /\ pc[2] = "killed" /\ pc[3] = "killed"
    /\ HasLine(2, TryingText(2)) /\ HasLine(3, TryingText(3))
    /\ pc[0] = "stopped"

\* C17 (as claimed): the destination a worker pid of a run of num_procs
\* workers picks and logs lies in 0 .. num_procs - 1 and is not pid; where
\* the random pick is pid it is (pid + 1) mod num_procs.
C17_DstNotSelf ==
    (h # <<>> /\ h[1].op = "pick") =>
        LET pid == h[1].who
            num_procs == h[1].pend
            dst == h[1].res
        IN  /\ dst \in 0 .. (num_procs - 1)
            /\ dst # pid
            /\ h[1].data[1] = pid => dst = (pid + 1) % num_procs

\* the Diagnostics objects there are: the coordinator's and the copy of
\* every live worker (a process that has ended took its copy with it)
Copies == alive \cup {Coord}

\* C18: no wait edge outlives its wait: in no Diagnostics object has a
\* worker an outgoing edge, or a key, unless that worker is inside the
\* contention delay of SharedMemoryChannel.recv, between its add_wait and
\* its remove_wait.
C18_NoStaleEdge ==
    \A o \in Copies, p \in Procs :
        (diag[o].edges[p] # {} \/ InSeq(p, diag[o].keys)) => (o = p /\ pc[p] = "shm_sleep")

\* worker p is inside the contention delay with its edge to the last
\* sender registered, while another worker has been through receive since
\* the message was sent
C18_Witness ==
    \E p \in Procs :
        /\ kind = "SharedMem" /\ pc[p] = "shm_sleep" /\ p \in alive
        /\ diag[p].edges[p] = {src} /\ diag[p].keys = <<p>>
        /\ lock \in Procs \ {p}

\* worker p registers its wait edge in this step
Registers(p) == pc[p] = "shm_owner" /\ pc'[p] = "shm_sleep"

\* C19: every edge waiter -> owner that SharedMemoryChannel.recv registers
\* denotes a real wait: in the step that registers it the owner is the
\* process holding the channel lock, the owner is not the waiter itself,
\* and the registration raises no cycle alert in the waiter's graph.
C19_EdgeIsRealWait ==
    [][\A p \in Procs :
          Registers(p) => /\ owner'[p] = lock
                          /\ owner'[p] # p
                          /\ diag'[p].alert = <<>>]_vars

\* ---------------------------------------------------------------- one failure, then stop
\* Runs in which one worker fails while the others go on, up to the end of
\* Backend.stop.  Either the deadlock demo, taken up where both roles hold
\* their first lock and wait for the other's (they stay there until
\* terminate(), see C16) while workers 0 and 1 have not run yet; or a run on
\* a PipeChannel in which one call of the channel hits a transport failure.

\* what a demo role has logged when it waits for its second lock
DemoLog(p) ==
    <<Line("Started.", <<>>), Line(AcquiringText(p), <<>>),
      Line(AcquiredFirstText(p), <<>>), Line(TryingText(p), <<>>)>>

BlockedInit ==
    /\ kind = "SharedMem"
    /\ ChanInit
    /\ pc = [p \in Procs |-> IF IsDemoRole(p) THEN "acq2" ELSE "start"]
    /\ h = <<>> /\ calls = 0
    /\ pend = [p \in Procs |-> 0]
    /\ overlap = [p \in Procs |-> FALSE]
    /\ control_q = [p \in Procs |-> "none"]
    /\ log = [p \in Procs |-> IF IsDemoRole(p) THEN DemoLog(p) ELSE <<>>]
    /\ lock_A = 2 /\ lock_B = 3
    /\ deadlock_mode = TRUE /\ locks = TRUE
    /\ has_diag = TRUE
    /\ runner = "backend" /\ cpc = "running"
    /\ alive = Procs
    /\ alert_ = NoAlert

\* Backend.start(4, 0): a PipeChannel, no Diagnostics, no demo
PipeRunInit == RunInit("backend", "Pipe", FALSE, FALSE, FALSE)

\* no worker has left its loop through an except clause
NoneFailed == \A p \in Procs : pc[p] \notin {"error", "closed"}

LocalInit == BlockedInit \/ PipeRunInit

LocalNext ==
    \/ \E p \in Procs : LoopSteps(p)
    \/ \E p \in Procs : MoreSteps(p)
    \/ \E p \in Procs : NoneFailed /\ WRecvFault(p)
    \/ \E p \in Procs : NoneFailed /\ WSendFault(p)
    \/ StopSequence

SpecLocal == LocalInit /\ [][LocalNext]_vars

\* every live worker keeps running; the coordinator's stop sequence, once
\* begun, goes on to its end
FairLocal ==
    /\ SpecLocal
    /\ \A p \in Procs : WF_vars(LoopSteps(p) \/ MoreSteps(p))
    /\ WF_vars(\E p \in Procs : Terminate(p))

\* p is not one of the demo's two roles
Bystander(p) == ~(deadlock_mode /\ locks /\ IsDemoRole(p))

\* p ended with an ERROR line, or is a role of the demo blocked for good
Failed(p) == pc[p] = "error" \/ (IsDemoRole(p) /\ BothBlocked)

OtherFailed(q) == \E p \in Procs \ {q} : Failed(p)

\* what another worker's failure never does to a bystander: no ERROR or
\* Channel closed line of its own, it ends only on STOP (with one Stopping.
\* line) or by terminate() (with none)
C20_Untouched ==
    \A q \in Procs :
        (Bystander(q) /\ OtherFailed(q)) =>
            /\ ~HasLine(q, "ERROR") /\ ~HasLine(q, "Channel closed. Exiting.")
            /\ q \notin alive => pc[q] \in {"stopped", "killed"}
            /\ pc[q] = "stopped" => (control_q[q] = "got" /\ CountLine(q, "Stopping.") = 1)
            /\ pc[q] # "stopped" => CountLine(q, "Stopping.") = 0

\* C20 (as claimed): failures are local to a worker: when one worker has
\* ended with an ERROR line or is blocked for good in the deadlock demo, every
\* other worker that is no demo role is left as it is, and once STOP is
\* posted to its control queue it eventually logs Stopping. and ends.
C20_FailuresLocal ==
    /\ []C20_Untouched
    /\ \A q \in Procs :
           (Bystander(q) /\ OtherFailed(q) /\ Posted(q))
               ~> (pc[q] = "stopped" /\ CountLine(q, "Stopping.") = 1)

\* ---------------------------------------------------------------- the end of a demo run
\* the coordinator's stop sequence, once begun, goes on to its end
FairDemoStop == SpecDemoStop /\ WF_vars(\E p \in Procs : Terminate(p))

\* C21: once the coordinator's stop sequence has begun (STOP posted), every
\* worker of the run is eventually not running, the demo's roles blocked on
\* their second lock included, and none runs when the sequence is over;
\* before the stop sequence two blocked roles never leave the blocked state.
C21_StopEndsAll ==
    /\ (cpc = "stopping") ~> (alive = {})
    /\ [](cpc = "idle" => alive = {})
    /\ [][(BothBlocked /\ cpc' = "running") => BothBlocked']_vars

\* the stop sequence is over: both roles were blocked until terminate()
\* ended them, workers 0 and 1 left on STOP
C21_Witness ==
    /\ cpc = "idle" /\ alive = {}
    /\ pc[2] = "killed" /\ pc[3] = "killed" /\ lock_A = 2 /\ lock_B = 3
    /\ log[2] = DemoLog(2) /\ log[3] = DemoLog(3)
    /\ pc[0] = "stopped" /\ pc[1] = "stopped"

\* ---------------------------------------------------------------- what the channels do to Diagnostics
\* m is a message, not None and not the mark of an exception
IsMessage(m) == m.src >= 0

\* C22: channel operations change a Diagnostics object only inside
\* SharedMemoryChannel.recv, and only the caller's own: last_access changes
\* only in the step in which a receive by pid returns a message, and then
\* only last_access[pid]; an edge is added only on the contended-lock path,
\* and only the caller's; every other step (every send, a receive that
\* returns nothing without contention, every Pipe or Queue step) leaves
\* wait graph, last_access and alert as they are.
C22_DiagFrame ==
    [][\A o \in Owners :
          LET d == diag[o]
              e == diag'[o]
          IN  /\ e # d => /\ o \in Procs /\ kind = "SharedMem"
                          /\ pc[o] \in {"shm_crit", "shm_owner", "shm_sleep"}
              /\ e.last_access # d.last_access =>
                     /\ pc[o] = "shm_crit" /\ IsMessage(msg'[o]) /\ msg'[o].dst = o
                     /\ \A q \in Procs \ {o} : e.last_access[q] = d.last_access[q]
                     /\ e.edges = d.edges /\ e.keys = d.keys /\ e.alert = d.alert
              /\ (\E q \in Procs : ~(e.edges[q] \subseteq d.edges[q])) =>
                     /\ pc[o] = "shm_owner" /\ pc'[o] = "shm_sleep"
                     /\ \A q \in Procs \ {o} : e.edges[q] = d.edges[q]
                     /\ e.last_access = d.last_access]_vars

\* worker p has received the message that was sent and recorded the access,
\* worker q is in the contention delay with its edge registered; q's copy
\* has no access recorded, p's no edge, the coordinator's nothing at all
C22_Witness ==
    \E p, q \in Procs :
        /\ p # q /\ kind = "SharedMem" /\ sent # <<>>
        /\ diag[p].last_access[p] > 0 /\ diag[p].keys = <<>>
        /\ pc[q] = "shm_sleep" /\ diag[q].edges[q] # {}
        /\ \A r \in Procs : diag[q].last_access[r] = 0
        /\ diag[Coord] = NewDiagnostics

\* ---------------------------------------------------------------- what detection does
\* the step runs check_deadlock on the Diagnostics of o: update_stats for
\* the coordinator's, the add_wait and the remove_wait of a contended
\* receive for a worker's copy
Detects(o) ==
    IF o = Coord THEN lock = Coord /\ lock' = Free
    ELSE pc[o] \in {"shm_owner", "shm_sleep"} /\ pc'[o] # pc[o]

\* the row of o in its own wait graph after the step: add_wait puts the
\* owner read in, remove_wait empties it
RowAfter(o) ==
    IF pc[o] = "shm_owner" /\ pc'[o] = "shm_sleep" THEN diag[o].edges[o] \cup {src}
    ELSE IF pc[o] = "shm_sleep" THEN {}
    ELSE diag[o].edges[o]

\* a is empty or a closed path of the graph
ClosedPath(a, edges) ==
    a # <<>> => /\ Len(a) >= 2 /\ a[1] = a[Len(a)]
                /\ \A i \in 1 .. (Len(a) - 1) : a[i + 1] \in edges[a[i]]

\* C23: deadlock detection is advisory: a step that runs check_deadlock,
\* directly or through add_wait / remove_wait, changes the alert and what
\* add_wait or remove_wait itself does to the caller's row of the graph, and
\* nothing else: every other edge, last_access, the holder of every lock,
\* every other worker's position, who is alive and the control queues stay
\* as they are, and a cycle that is reported is still in the graph.
C23_Advisory ==
    [][\A o \in Owners :
          Detects(o) =>
              /\ diag'[o].last_access = diag[o].last_access
              /\ \A q \in Procs \ {o} : diag'[o].edges[q] = diag[o].edges[q]
              /\ o \in Procs => diag'[o].edges[o] = RowAfter(o) /\ lock' = lock
              /\ o = Coord => diag'[o].keys = diag[o].keys
              /\ ClosedPath(diag'[o].alert, diag'[o].edges)
              /\ lock_A' = lock_A /\ lock_B' = lock_B
              /\ alive' = alive /\ control_q' = control_q /\ cpc' = cpc
              /\ \A q \in Procs \ {o} : pc'[q] = pc[q] /\ diag'[q] = diag[q]]_vars

\* a detection has reported a cycle to worker p while both roles of the
\* demo are blocked: the cycle's edge is there, the roles hold their locks
C23_Witness ==
    \E p \in Procs :
        /\ BothBlocked /\ pc[p] = "shm_sleep"
        /\ diag[p].alert # <<>> /\ diag[p].edges[p] # {}

\* ---------------------------------------------------------------- the shared buffer's limits
\* n times the character c
Rep(c, n) == [i \in 1 .. n |-> c]

\* payloads at the edge of the 256-byte buffer, besides the short ones:
\* "A" * 255 (fills it), "A" * 256 (one byte too long), "A" * 253 + "\u00e9"
\* (255 bytes, the last character takes two) and "A" * 254 + "\u00e9" (256
\* bytes, the cut at 255 falls inside the last character)
EdgePayloads ==
    {Rep(65, BufSize - 1), Rep(65, BufSize),
     Rep(65, BufSize - 3) \o <<233>>, Rep(65, BufSize - 2) \o <<233>>}

TripNext ==
    \/ \E p \in Callers, x \in Payloads \cup EdgePayloads : CallSend(p, x)
    \/ \E p \in Callers : CallRecv(p)
    \/ \E p \in Callers : SendDone(p)
    \/ \E p \in Callers : RecvDone(p)

SpecTrip == TestInit("SharedMem") /\ [][TripNext]_vars

\* C24 (as claimed): on a SharedMemoryChannel a send of a payload that fits
\* (at most 255 bytes encoded, no zero byte) followed by a recv returns that
\* payload and the sender as source, whatever was written to the buffer
\* before; a send of a payload longer than 255 bytes followed by a recv
\* returns a message that carries its first 255 bytes.
C24_ShmRoundTrip ==
    LET i == Len(h) - 1
    IN  (IsSend(i) /\ IsRecv(i + 1)) =>
            LET x == h[i].data
                m == h[i + 1].res
            IN  /\ Fits(x) => Carries(i + 1, i)
                /\ Len(encode(x)) > BufSize - 1 =>
                       /\ IsMessage(m) /\ m.src = h[i].who
                       /\ encode(m.data) = Take(encode(x), BufSize - 1)

====
